---- MODULE Spec2Model ----
(***************************************************************************)
(* Model of quad_pid.py: a PD altitude/attitude controller that reads the  *)
(* pose of a simulated quadrotor, computes four rotor commands and steps   *)
(* the simulator, once per tick of an endless loop.                        *)
(*                                                                         *)
(* Arithmetic is exact fixed point over the integers (the rounding of the  *)
(* IEEE-754 doubles of the program is not modelled).  Units:               *)
(*   x, x_d, e, e_last   1e-3   (millimetre, milliradian)                  *)
(*   e_dot               1e-3 per second                                   *)
(*   K_p, K_d            1e-2   (kpz = 4.0 is 400, kdz = 0.01 is 1)        *)
(*   u, mass*gravity     1e-5   (gain unit times error unit)               *)
(*   C_R                 1/4    (a = 0.25 is 1, b = c = 2.5 is 10)         *)
(*   F, ctrl             1e-5/4                                            *)
(* Vectors are tuples indexed 1..4 for the program's indices 0..3; the     *)
(* rotation matrix is a tuple of rows indexed 1..3 for the program's 0..2. *)
(***************************************************************************)
EXTENDS Integers, Sequences, FiniteSets

VARIABLES
    TESTING,    \* whether os.getenv('TESTING') is not None
    pc,         \* position of the loop
    t,          \* tick counter
    x_d,        \* setpoint
    K_p, K_d,   \* gain matrices
    C_R,        \* rotor mixing matrix
    rotmat,     \* rotation matrix read this tick
    zpos,       \* sim.data.get_body_xipos('quadrotor')[2]
    x,          \* state vector
    e, e_last,  \* error and previous error
    e_dot,      \* finite-difference derivative
    printed,    \* what print(e) wrote last
    u,          \* control output
    F,          \* rotor commands
    ctrl,       \* sim.data.ctrl[0..3]
    applied,    \* the controls the simulator applied in its last step
    reads, writes, steps, renders   \* calls made on the simulator and viewer

vars == <<TESTING, pc, t, x_d, K_p, K_d, C_R, rotmat, zpos, x, e, e_last,
          e_dot, printed, u, F, ctrl, applied, reads, writes, steps, renders>>

(* ------------------------------ bounds -------------------------------- *)

\* The loop of the model stops starting ticks once t reaches MaxTick.
MaxTick == 103

\* The simulator reports an altitude of 0 .. MaxZ half-metres.
MaxZ == 2

(* ----------------------------- constants ------------------------------ *)

dtMilli == 1            \* dt = 0.001 s
gravityCenti == 981     \* gravity = 9.81
massTenths == 3         \* mass = 0.3
TickLimit == 100        \* the literal of "t > 100"

kpz == 400
kpphi == 1
kptheta == 1
kppsi == 1

kdz == 1
kdphi == 1
kdtheta == 1
kdpsi == 1

\* ctrlrange="0.0 10.0" of the four motors, in the unit of F
CtrlLow == 0
CtrlHigh == 4000000

LTenths == 1            \* L = 0.1
CTenths == 1            \* C = 0.1

\* a = 0.25, b = 1/(4*L), c = 1/(4*C), in quarters
a == 1
b == 10 \div LTenths
c == 10 \div CTenths

\* mass * gravity in units of 1e-5
MassGravity == massTenths * gravityCenti * 100

Zero4 == <<0, 0, 0, 0>>

x_d_init == <<500, 0, 0, 0>>

K_p_init ==
    << <<kpz, 0, 0, 0>>,
       <<0, kpphi, 0, 0>>,
       <<0, 0, kptheta, 0>>,
       <<0, 0, 0, kppsi>> >>

K_d_init ==
    << <<kdz, 0, 0, 0>>,
       <<0, kdphi, 0, 0>>,
       <<0, 0, kdtheta, 0>>,
       <<0, 0, 0, kdpsi>> >>

ZeroGain == << Zero4, Zero4, Zero4, Zero4 >>

C_R_init ==
    << <<a, b, -b, -c>>,
       <<a, -b, -b, c>>,
       <<a, -b, b, -c>>,
       <<a, b, b, c>> >>

(* ------------------------- numpy operations --------------------------- *)

\* np.matmul of a 4x4 matrix and a 4-vector
MatMul(M, v) ==
    [i \in 1..4 |-> M[i][1]*v[1] + M[i][2]*v[2] + M[i][3]*v[3] + M[i][4]*v[4]]

VecAdd(v, w) == [i \in 1..4 |-> v[i] + w[i]]

VecSub(v, w) == [i \in 1..4 |-> v[i] - w[i]]

\* v / dt
DivDt(v) == [i \in 1..4 |-> (v[i] * 1000) \div dtMilli]

\* np.sqrt on the sums of squares of matrix entries the model reports
Sqrt(n) == CHOOSE r \in 0..n : r * r <= n /\ (r + 1) * (r + 1) > n

\* np.arctan2(y, x) in milliradians, for the arguments -1, 0, 1
ArcTan2(y, xx) ==
    IF y = 0 THEN (IF xx < 0 THEN 3142 ELSE 0)
    ELSE IF y > 0 THEN (IF xx > 0 THEN 785 ELSE IF xx = 0 THEN 1571 ELSE 2356)
    ELSE (IF xx > 0 THEN -785 ELSE IF xx = 0 THEN -1571 ELSE -2356)

(* ---------------------- what the simulator reports -------------------- *)

Identity3 == << <<1, 0, 0>>, <<0, 1, 0>>, <<0, 0, 1>> >>

\* yaw -90 degrees then roll +90 degrees: Rz(-90) Rx(90)
YawRollQuarter == << <<0, 0, -1>>, <<-1, 0, 0>>, <<0, 1, 0>> >>

\* pitch +90 degrees: Ry(90), the gimbal-lock attitude
PitchQuarter == << <<0, 0, 1>>, <<0, 1, 0>>, <<-1, 0, 0>> >>

Rotations == {Identity3, YawRollQuarter, PitchQuarter}

Altitudes == {500 * k : k \in 0..MaxZ}

(* ------------------------- the control law ---------------------------- *)

Yaw(R) == ArcTan2(R[2][1], R[1][1])
Pitch(R) == ArcTan2(-R[3][1], Sqrt(R[3][2]*R[3][2] + R[3][3]*R[3][3]))
Roll(R) == ArcTan2(R[3][2], R[3][3])

StateVector(R, z) == <<z, Roll(R), Pitch(R), Yaw(R)>>

\* Faults of the control output: the weight term left out, the weight term
\* added without the PD term ("u[0] += mass*gravity"), and the scalar added
\* to every channel ("u += u[0] + mass*gravity").
ControlInputNoGravity(Kp, Kd, err, errdot) ==
    VecAdd(MatMul(Kp, err), MatMul(Kd, errdot))

ControlInputNoDoubling(Kp, Kd, err, errdot) ==
    LET p == VecAdd(MatMul(Kp, err), MatMul(Kd, errdot))
    IN  VecAdd(p, <<MassGravity, 0, 0, 0>>)

ControlInputBroadcast(Kp, Kd, err, errdot) ==
    LET p == VecAdd(MatMul(Kp, err), MatMul(Kd, errdot))
        s == p[1] + MassGravity
    IN  VecAdd(p, <<s, s, s, s>>)

\* u = K_p e + K_d e_dot ; u += [u[0] + mass*gravity, 0, 0, 0]
ControlInput(Kp, Kd, err, errdot) ==
    LET p == VecAdd(MatMul(Kp, err), MatMul(Kd, errdot))
    IN  VecAdd(p, <<p[1] + MassGravity, 0, 0, 0>>)

\* Fault of the mixing: np.matmul(u, C_R), the product with the transpose.
MixTransposed(CR, uu) ==
    [i \in 1..4 |-> CR[1][i]*uu[1] + CR[2][i]*uu[2] + CR[3][i]*uu[3] + CR[4][i]*uu[4]]

Mix(CR, uu) == MatMul(CR, uu)

\* The motors are declared ctrllimited: the simulator's step clamps each
\* control to the ctrlrange before it applies it (sim.data.ctrl keeps the
\* value written).
Clamp(v) ==
    [i \in 1..4 |-> IF v[i] < CtrlLow THEN CtrlLow
                    ELSE IF v[i] > CtrlHigh THEN CtrlHigh ELSE v[i]]

(* ------------------------------ the loop ------------------------------ *)

\* x, e_last, e_dot, u and F are unbound names before the first tick, which
\* assigns each before it reads it; the model starts them at zero.
InitCommon ==
    /\ pc = "read"
    /\ t = 0
    /\ e = Zero4
    /\ x_d = x_d_init
    /\ C_R = C_R_init
    /\ rotmat = Identity3
    /\ zpos = 0
    /\ x = Zero4
    /\ e_last = Zero4
    /\ e_dot = Zero4
    /\ printed = Zero4
    /\ u = Zero4
    /\ F = Zero4
    /\ ctrl = Zero4
    /\ applied = Zero4
    /\ reads = 0
    /\ writes = 0
    /\ steps = 0
    /\ renders = 0

Init ==
    /\ InitCommon
    /\ TESTING \in BOOLEAN
    /\ K_p = K_p_init
    /\ K_d = K_d_init

Frame == UNCHANGED <<TESTING, x_d, K_p, K_d, C_R>>

ReadState ==
    /\ pc = "read"
    /\ t < MaxTick
    /\ \E R \in Rotations, z \in Altitudes :
          /\ rotmat' = R
          /\ zpos' = z
          /\ x' = StateVector(R, z)
    /\ reads' = reads + 1
    /\ pc' = "error"
    /\ Frame
    /\ UNCHANGED <<t, e, e_last, e_dot, printed, u, F, ctrl, applied,
                   writes, steps, renders>>

\* Fault of the error step: e_last taken after e has been overwritten.
ComputeErrorStale ==
    /\ pc = "error"
    /\ e' = VecSub(x_d, x)
    /\ e_last' = e'
    /\ e_dot' = DivDt(VecSub(e', e_last'))
    /\ printed' = e'
    /\ pc' = "input"
    /\ Frame
    /\ UNCHANGED <<t, rotmat, zpos, x, u, F, ctrl, applied,
                   reads, writes, steps, renders>>

ComputeError ==
    /\ pc = "error"
    /\ e_last' = e
    /\ e' = VecSub(x_d, x)
    /\ e_dot' = DivDt(VecSub(e', e_last'))
    /\ printed' = e'
    /\ pc' = "input"
    /\ Frame
    /\ UNCHANGED <<t, rotmat, zpos, x, u, F, ctrl, applied,
                   reads, writes, steps, renders>>

\* Fault of the input step: the output accumulated over the ticks.
ComputeInputAccumulate ==
    /\ pc = "input"
    /\ u' = VecAdd(u, ControlInput(K_p, K_d, e, e_dot))
    /\ pc' = "actuate"
    /\ Frame
    /\ UNCHANGED <<t, rotmat, zpos, x, e, e_last, e_dot, printed, F, ctrl,
                   applied, reads, writes, steps, renders>>

ComputeInput ==
    /\ pc = "input"
    /\ u' = ControlInput(K_p, K_d, e, e_dot)
    /\ pc' = "actuate"
    /\ Frame
    /\ UNCHANGED <<t, rotmat, zpos, x, e, e_last, e_dot, printed, F, ctrl,
                   applied, reads, writes, steps, renders>>

\* Fault of the actuator write: the channels written before F is recomputed.
ActuateStale ==
    /\ pc = "actuate"
    /\ ctrl' = <<F[1], F[2], F[3], F[4]>>
    /\ F' = Mix(C_R, u)
    /\ writes' = writes + 1
    /\ pc' = "step"
    /\ Frame
    /\ UNCHANGED <<t, rotmat, zpos, x, e, e_last, e_dot, printed, u,
                   applied, reads, steps, renders>>

Actuate ==
    /\ pc = "actuate"
    /\ F' = Mix(C_R, u)
    /\ ctrl' = <<F'[1], F'[2], F'[3], F'[4]>>
    /\ writes' = writes + 1
    /\ pc' = "step"
    /\ Frame
    /\ UNCHANGED <<t, rotmat, zpos, x, e, e_last, e_dot, printed, u,
                   applied, reads, steps, renders>>

StepSim ==
    /\ pc = "step"
    /\ t' = t + 1
    /\ steps' = steps + 1
    /\ applied' = Clamp(ctrl)
    /\ pc' = "render"
    /\ Frame
    /\ UNCHANGED <<rotmat, zpos, x, e, e_last, e_dot, printed, u, F, ctrl,
                   reads, writes, renders>>

Render ==
    /\ pc = "render"
    /\ renders' = renders + 1
    /\ pc' = "check"
    /\ Frame
    /\ UNCHANGED <<t, rotmat, zpos, x, e, e_last, e_dot, printed, u, F, ctrl,
                   applied, reads, writes, steps>>

\* Faults of the termination check: an off-by-one comparison, and the
\* environment flag left out of the condition.
CheckTerminationEarly ==
    /\ pc = "check"
    /\ pc' = IF t >= TickLimit /\ TESTING THEN "done" ELSE "read"
    /\ Frame
    /\ UNCHANGED <<t, rotmat, zpos, x, e, e_last, e_dot, printed, u, F, ctrl,
                   applied, reads, writes, steps, renders>>

CheckTerminationNoEnv ==
    /\ pc = "check"
    /\ pc' = IF t > TickLimit THEN "done" ELSE "read"
    /\ Frame
    /\ UNCHANGED <<t, rotmat, zpos, x, e, e_last, e_dot, printed, u, F, ctrl,
                   applied, reads, writes, steps, renders>>

CheckTermination ==
    /\ pc = "check"
    /\ pc' = IF t > TickLimit /\ TESTING THEN "done" ELSE "read"
    /\ Frame
    /\ UNCHANGED <<t, rotmat, zpos, x, e, e_last, e_dot, printed, u, F, ctrl,
                   applied, reads, writes, steps, renders>>

Next ==
    \/ ReadState
    \/ ComputeError
    \/ ComputeInput
    \/ Actuate
    \/ StepSim
    \/ Render
    \/ CheckTermination

Spec == Init /\ [][Next]_vars

\* The run of the automated test: TESTING is set, and the interpreter keeps
\* executing the single thread of the script.
InitTesting ==
    /\ InitCommon
    /\ TESTING = TRUE
    /\ K_p = K_p_init
    /\ K_d = K_d_init

SpecTesting == InitTesting /\ [][Next]_vars /\ WF_vars(Next)

\* The control law with the gain matrices as inputs: each is the matrix of
\* the script or the zero matrix.
InitGains ==
    /\ InitCommon
    /\ TESTING \in BOOLEAN
    /\ K_p \in {K_p_init, ZeroGain}
    /\ K_d \in {K_d_init, ZeroGain}

SpecGains == InitGains /\ [][Next]_vars


(* ------------------------------ claims -------------------------------- *)

AfterError == {"input", "actuate", "step", "render", "check", "done"}
AfterInput == {"actuate", "step", "render", "check", "done"}
AfterActuate == {"step", "render", "check", "done"}

\* C1: with TESTING set the loop terminates, and when it has terminated it
\* has made exactly 101 reads, writes, steps and renders and t is 101: it
\* exits after the step and render of tick 101 and never on an earlier tick.
TestModeTerminates ==
    /\ [](pc = "done" =>
            /\ t = 101
            /\ reads = 101 /\ writes = 101 /\ steps = 101 /\ renders = 101)
    /\ <>(pc = "done")

TestModeTerminatesWitness ==
    TESTING /\ pc = "done" /\ steps = 101 /\ renders = 101

\* C2: without TESTING no step of the loop exits it, and every termination
\* check goes back to the state read of the next tick.
NeverSelfTerminates ==
    [][~TESTING => (pc' # "done" /\ (pc = "check" => pc' = "read"))]_vars

NeverSelfTerminatesWitness ==
    ~TESTING /\ pc = "error" /\ t = 102 /\ reads = 103

\* C3: every command written to the actuator channels is non-negative.
ThrustNonNegative ==
    writes > 0 => \A i \in 1..4 : ctrl[i] >= 0

\* C4: at the identity attitude and the setpoint altitude the error is zero,
\* and with a zero previous error the control output is [mass*gravity,0,0,0].
HoverIsGravityOnly ==
    (rotmat = Identity3 /\ x_d[1] = 500 /\ zpos = x_d[1]) =>
        /\ pc \in AfterError => e = Zero4
        /\ (pc \in AfterInput /\ e_last = Zero4) => u = <<MassGravity, 0, 0, 0>>

HoverIsGravityOnlyWitness ==
    /\ pc = "step" /\ t >= 1
    /\ rotmat = Identity3 /\ zpos = 500
    /\ e = Zero4 /\ e_last = Zero4
    /\ u = <<294300, 0, 0, 0>>

\* C5: with both gain matrices zero the control output is
\* [mass*gravity,0,0,0] on every tick whatever the errors are, and every
\* rotor command written and applied is mass*gravity/4.
ZeroGainsFixedPoint ==
    (K_p = ZeroGain /\ K_d = ZeroGain) =>
        /\ pc \in AfterInput => u = <<MassGravity, 0, 0, 0>>
        /\ writes > 0 =>
              ctrl = <<MassGravity, MassGravity, MassGravity, MassGravity>>
        /\ steps > 0 =>
              applied = <<MassGravity, MassGravity, MassGravity, MassGravity>>

ZeroGainsFixedPointWitness ==
    /\ K_p = ZeroGain /\ K_d = ZeroGain
    /\ pc = "render" /\ t >= 2
    /\ e # Zero4 /\ e_last # Zero4 /\ e # e_last
    /\ applied = <<294300, 294300, 294300, 294300>>

\* C6: the error step sets e_last to the error of the preceding tick, which
\* no other step has changed since, and e_dot to (e - e_last)/dt; before the
\* first tick the error is zero, so on the first tick e_dot is e/dt.
FiniteDifference ==
    [][ /\ pc = "error" =>
            /\ e' = [i \in 1..4 |-> x_d[i] - x[i]]
            /\ e_last' = e
            /\ e_dot' = [i \in 1..4 |-> (e'[i] - e[i]) * 1000]
            /\ t = 0 => e_dot' = [i \in 1..4 |-> e'[i] * 1000]
        /\ pc # "error" => (e' = e /\ e_last' = e_last /\ e_dot' = e_dot)
      ]_vars

FiniteDifferenceWitness ==
    /\ pc = "input" /\ t >= 1
    /\ e_last # Zero4 /\ e # e_last
    /\ e_dot = [i \in 1..4 |-> (e[i] - e_last[i]) * 1000]

\* C7: the commands written, in index order, are C_R u, where u is
\* p = K_p e + K_d e_dot on channels 1..3 and p[0] + (p[0] + mass*gravity)
\* on channel 0.
MixedCommand ==
    pc \in AfterActuate =>
        LET p == [i \in 1..4 |->
                    K_p[i][1]*e[1] + K_p[i][2]*e[2] + K_p[i][3]*e[3] + K_p[i][4]*e[4]
                  + K_d[i][1]*e_dot[1] + K_d[i][2]*e_dot[2]
                  + K_d[i][3]*e_dot[3] + K_d[i][4]*e_dot[4]]
            w == <<p[1] + (p[1] + 294300), p[2], p[3], p[4]>>
        IN  /\ u = w
            /\ w[1] - 294300 = 2 * p[1]
            /\ ctrl = << w[1] + 10*w[2] - 10*w[3] - 10*w[4],
                         w[1] - 10*w[2] - 10*w[3] + 10*w[4],
                         w[1] - 10*w[2] + 10*w[3] - 10*w[4],
                         w[1] + 10*w[2] + 10*w[3] + 10*w[4] >>
            /\ \A i \in 1..4 : ctrl[i] = F[i]

MixedCommandWitness ==
    /\ pc = "step" /\ t >= 1
    /\ e[1] # 0 /\ e[2] # 0 /\ e[4] # 0 /\ e_dot[3] # 0
    /\ u[1] # 294300 /\ u[2] # 0 /\ u[3] # 0 /\ u[4] # 0

\* C8: within a tick the state read, the command write, the simulator step
\* and the render happen once each in that order; the step uses the commands
\* computed from the pose read in the same tick; at the termination check
\* the numbers of steps and renders equal the tick counter.
TickOrder ==
    /\ pc = "read" =>
          reads = t /\ writes = t /\ steps = t /\ renders = t
    /\ pc \in {"error", "input", "actuate"} =>
          reads = t + 1 /\ writes = t /\ steps = t /\ renders = t
    /\ pc = "step" =>
          /\ reads = t + 1 /\ writes = t + 1 /\ steps = t /\ renders = t
          /\ x = StateVector(rotmat, zpos)
          /\ e = VecSub(x_d, x)
          /\ ctrl = Mix(C_R, ControlInput(K_p, K_d, e, e_dot))
    /\ pc = "render" =>
          /\ reads = t /\ writes = t /\ steps = t /\ renders = t - 1
          /\ applied = Clamp(Mix(C_R, ControlInput(K_p, K_d, e, e_dot)))
          /\ e = VecSub(x_d, StateVector(rotmat, zpos))
    /\ pc \in {"check", "done"} =>
          reads = t /\ writes = t /\ steps = t /\ renders = t

TickOrderWitness ==
    /\ pc = "check" /\ t = 2
    /\ steps = 2 /\ renders = 2 /\ reads = 2 /\ writes = 2
    /\ applied = ctrl /\ applied # Zero4 /\ ctrl = F

\* What a tick leaves in the controller's variables when it starts from the
\* values the script gives them before the loop, the previous error aside.
RecomputedEachTick ==
    /\ x = StateVector(rotmat, zpos)
    /\ e = VecSub(x_d_init, x)
    /\ e_dot = DivDt(VecSub(e, e_last))
    /\ u = ControlInput(K_p_init, K_d_init, e, e_dot)
    /\ F = Mix(C_R_init, u)
    /\ x_d = x_d_init /\ K_p = K_p_init /\ K_d = K_d_init /\ C_R = C_R_init

\* C9 as stated: the previous error is the only value carried from one tick
\* to the next, so at the end of every tick every other variable of the
\* script, the tick counter t included, has the value one tick gives it from
\* its initial value.
OnlyErrorCarried ==
    pc = "check" => (RecomputedEachTick /\ t = 1)

\* C9 as amended: the previous error and the tick counter t are the only values
\* carried from one tick to the next; x, e_dot, u and F are recomputed from
\* the pose of the tick, the setpoint, the gains and the mixing matrix keep
\* their initial values, and t counts the ticks made.
ErrorAndTickCarried ==
    pc = "check" => (RecomputedEachTick /\ t = steps /\ t >= 1)

ErrorAndTickCarriedWitness ==
    /\ pc = "check" /\ t = 3
    /\ e_last # Zero4 /\ e # e_last /\ u # Zero4
    /\ x_d = x_d_init /\ K_p = K_p_init

\* C10: the four mixed commands add up to the collective thrust u[0] (in the
\* model's units F is in quarters of u's unit), the torque columns of C_R
\* add up to zero and its thrust column is 0.25 on every rotor.
ThrustConserved ==
    /\ pc \in AfterActuate => F[1] + F[2] + F[3] + F[4] = 4 * u[1]
    /\ \A j \in 2..4 : C_R[1][j] + C_R[2][j] + C_R[3][j] + C_R[4][j] = 0
    /\ \A i \in 1..4 : C_R[i][1] = 1

ThrustConservedWitness ==
    /\ pc = "step"
    /\ u[2] # 0 /\ u[3] # 0 /\ u[4] # 0
    /\ F[1] + F[2] + F[3] + F[4] = 4 * u[1]
    /\ F[1] # F[2] /\ F[2] # F[3]

====
